---- MODULE Spec2Model ----
(***************************************************************************)
(* Model of the RAGAS evaluation pipeline of ltv-ragas-evaluation:         *)
(*   - workers/evaluation_worker.py   run_evaluation, update_progress      *)
(*   - services/ragas_evaluator.py    RAGASEvaluator.evaluate_single       *)
(*   - routes/jobs.py                 create_job                           *)
(*   - services/question_service.py   bulk_add_questions, delete_question  *)
(* One evaluation Job/Run over one dataset.  The durable store holds job,  *)
(* run, results and dataset; every action is the code between two commits. *)
(***************************************************************************)
EXTENDS Integers, Sequences, FiniteSets, TLC

\* ----------------------------------------------------------------- bounds
MaxQuestions == 2      \* a dataset holds at most this many questions
MaxEdits == 1          \* dataset edits between submission and question load
MaxRequeueResults == 1 \* a run is re-invoked only with at most this many Results

\* ------------------------------------------------------- values of the code
None == -1             \* Python None in a score slot
NaN == -2              \* numpy.nan
Absent == -3           \* key not in the scores dict

MetricKeys == {"context_precision", "context_recall", "context_relevancy"}
Metrics == <<"context_precision", "context_recall", "context_relevancy">>

\* 0 is the score 0.0; 1 stands for any finite non-zero score
ScoreValues == {0, 1}

\* What one single-metric evaluate() + result frame can do: compute a value,
\* compute NaN, raise, or yield a frame _extract_scores cannot read.
BackendOutcomes == {"v0", "v1", "nan", "raise", "malformed"}

OutcomeValue(o) == CASE o = "v0" -> 0 [] o = "v1" -> 1 [] OTHER -> NaN

\* Outcome of the two Redis commands of update_progress.
CacheOutcomes == {"ok", "hset_fails", "expire_fails"}

VARIABLES
    dataset,        \* question ids of the dataset, in order_index order
    edits,          \* number of dataset edits done since submission
    job,            \* EvaluationJob row
    run,            \* EvaluationRun row
    results,        \* EvaluationResult rows of the run, in insertion order
    cache,          \* Redis hash eval_progress:<job_id>
    pc,             \* position of run_evaluation
    questions,      \* local: questions loaded by run_evaluation
    idx,            \* local: loop index
    contexts,       \* local: contexts (bound flag and value)
    session,        \* uncommitted Job and Run of the session when an exception left the try
    using_gemini,   \* RAGASEvaluator.using_gemini
    ev_idx,         \* evaluate_single: index of the next metric
    scores,         \* evaluate_single: scores dict
    outcomes,       \* what the backend did for each metric of this invocation
    ev_ret,         \* result of the last evaluate_single
    response,       \* last answer of get_job_status
    query,          \* RetrievalClient.query: the call in progress and its attempts
    qrows,          \* dataset_questions rows of one dataset
    ds_total,       \* evaluation_datasets.total_questions of that dataset
    api,            \* the question API requests in progress, one per session
    ds_resp,        \* status code of the last answered question API request, and their number
    gen,            \* run_question_generation: its job row, locals and position
    statistics,     \* last value returned by calculate_run_statistics
    evaluator,      \* the RAGASEvaluator singleton: llm, metrics, ollama_llm
    call            \* evaluate_single on the singleton: position and evaluations

evVars == <<using_gemini, ev_idx, scores, outcomes, ev_ret>>
dsVars == <<qrows, ds_total, api, ds_resp, gen>>
auxVars == <<response, query, dsVars, statistics, evaluator, call>>
vars == <<dataset, edits, job, run, results, cache, pc, questions, idx, contexts,
          session, using_gemini, ev_idx, scores, outcomes, ev_ret, response, query,
          qrows, ds_total, api, ds_resp, gen, statistics, evaluator, call>>

\* -------------------------------------------------------- evaluate_single
InitScores == [k \in MetricKeys |-> None]
EmptyScores == [k \in MetricKeys |-> Absent]

\* _extract_scores for the frame of one metric m: the metric's own column,
\* 0.0 for every key not found; all 0.0 when the frame cannot be read.
ExtractScores(m, o) ==
    IF o = "malformed"
    THEN [k \in MetricKeys |-> 0]
    ELSE [k \in MetricKeys |-> IF k = m THEN OutcomeValue(o) ELSE 0]

\* lines 335-339: take a value unless it is NaN, and a 0.0 only into a None slot
MergePartial(s, partial) ==
    [k \in MetricKeys |->
        IF partial[k] # None /\ partial[k] # NaN /\ (partial[k] # 0 \/ s[k] = None)
        THEN partial[k]
        ELSE s[k]]

\* lines 346-351 / 404-409: NaN for the failed metric if its key is not in scores
MetricFailed(s, m) ==
    IF s[m] = Absent THEN [s EXCEPT ![m] = NaN] ELSE s

\* one iteration of the primary loop, lines 287-351
PrimaryStep(s, m, o) ==
    IF o = "raise" THEN MetricFailed(s, m) ELSE MergePartial(s, ExtractScores(m, o))

\* one iteration of the fallback loop, lines 392-409: scores.update(partial)
FallbackStep(s, m, o) ==
    IF o = "raise" THEN MetricFailed(s, m) ELSE ExtractScores(m, o)

\* mutant of NanStep: a None score is skipped instead of raising TypeError
NanStepSkipsNone(v, rest) ==
    IF v = NaN THEN "True" ELSE rest

\* any(np.isnan(score) for score in scores.values()): scans in dict order,
\* stops at the first NaN, and np.isnan(None) raises TypeError.
NanStep(v, rest) ==
    IF v = None THEN "TypeError"
    ELSE IF v = NaN THEN "True"
    ELSE rest

AnyNaN(s) ==
    NanStep(s[Metrics[1]], NanStep(s[Metrics[2]], NanStep(s[Metrics[3]], "False")))

FallbackScores(fb) ==
    FallbackStep(FallbackStep(FallbackStep(EmptyScores, Metrics[1], fb[1]),
                              Metrics[2], fb[2]), Metrics[3], fb[3])

\* What the Ollama fallback does: unavailable, or three metric outcomes.
FallbackBehaviours == {<<"unavailable">>} \cup [1..3 -> BackendOutcomes]

\* lines 370-428: the handler of the primary sequence's exception
Fallback(fb) ==
    IF fb = <<"unavailable">>
    THEN [kind |-> "raise", scores |-> InitScores, fallback |-> TRUE]
    ELSE IF AnyNaN(FallbackScores(fb)) = "False"
         THEN [kind |-> "return", scores |-> FallbackScores(fb), fallback |-> TRUE]
         ELSE [kind |-> "raise", scores |-> InitScores, fallback |-> TRUE]

\* lines 353-368 and 370-428: the check after the primary loop
EvalTail(s, ug, fb) ==
    LET chk == AnyNaN(s) IN
    IF chk = "False"
    THEN [kind |-> "return", scores |-> s, fallback |-> FALSE]
    ELSE IF chk = "True" /\ ug
         THEN Fallback(fb)
         ELSE [kind |-> "raise", scores |-> InitScores, fallback |-> FALSE]

NoReturn == [kind |-> "none", scores |-> InitScores, fallback |-> FALSE]

\* lines 358-359 and 372: the fallback branch is entered
FallbackEntered(s, ug) == AnyNaN(s) = "True" /\ ug

\* ------------------------------------------- backend handles of the evaluator
\* A handle is one constructed model object: its backend (the cloud model or
\* the local model) and the acquisition that made it; NoHandle is a missing
\* attribute.
NoHandle == [kind |-> "none", at |-> 0]
Handle(kind, at) == [kind |-> kind, at |-> at]
AcquireOutcomes == {"ok", "fails"}

\* _get_llm, lines 137-192: the cloud model if the credential is configured
\* and its construction succeeds, else the local model, else an exception
GetLlm(key, co, oo) ==
    IF key /\ co = "ok" THEN "gemini"
    ELSE IF oo = "ok" THEN "ollama"
    ELSE "raise"

\* get_ragas_evaluator before the first construction: _ragas_evaluator is None
NoEvaluator == [built |-> FALSE, key |-> FALSE, primary |-> NoHandle, llm |-> NoHandle,
                ollama_llm |-> NoHandle, metrics |-> <<NoHandle, NoHandle, NoHandle>>]

\* the handles the evaluator object refers to
Referenced(ev) == {ev.llm, ev.ollama_llm} \cup {ev.metrics[i] : i \in 1..3}

NoCall == [pc |-> "idle", evals |-> <<>>, invocations |-> 0]

\* one single-metric evaluate(dataset, metrics=[metric]) call
\* by a metric object holding `handle`; fresh: the handle was acquired for
\* this metric; released: nothing refers to the previous evaluation's handle
Evaluation(sequence, position, handle, fresh, released) ==
    [seq |-> sequence, pos |-> position, handle |-> handle, fresh |-> fresh,
     released |-> released]

\* ------------------------------------------------------- update_progress
NoCache == [present |-> FALSE, progress_percent |-> 0, current_step |-> "None", ttl |-> FALSE]

\* lines 46-52: HSET then EXPIRE, two separate commands; either may raise
CacheWrite(c, p, step, co) ==
    IF co = "hset_fails" THEN c
    ELSE [present |-> TRUE, progress_percent |-> p, current_step |-> step,
          ttl |-> IF co = "ok" THEN TRUE ELSE (c.present /\ c.ttl)]

\* lines 55-56: reached only when both Redis commands succeeded
update_progress(j, p, step, co) ==
    IF co = "ok" THEN [j EXCEPT !.progress_percent = p, !.current_step = step] ELSE j

\* ------------------------------------------------------------ the store
NoJob == [status |-> "none", progress_percent |-> 0, current_step |-> "None",
          error_message |-> "None"]
\* an average is kept exact, as sum over count; count 0 stands for "not set"
NoAverage == [num |-> 0, den |-> 0]
NoAverages == [k \in MetricKeys |-> NoAverage]
NoRun == [status |-> "none", total_questions |-> 0, successful_questions |-> 0,
          failed_questions |-> 0, current_question_index |-> 0,
          average_scores |-> NoAverages]
UnboundContexts == [bound |-> FALSE, val |-> <<>>]
NoSession == [job |-> NoJob, run |-> NoRun, run_loaded |-> FALSE]

QuestionIds == 1..(MaxQuestions + MaxEdits)

FreshId == CHOOSE q \in QuestionIds : \A i \in 1..Len(dataset) : dataset[i] # q

RemoveAt(s, i) == [k \in 1..(Len(s) - 1) |-> IF k < i THEN s[k] ELSE s[k + 1]]

\* mutant of EvaluationErrorResult: the contexts are dropped on a scoring failure
EvaluationErrorResultNoContexts(q, ctx) ==
    [question_id |-> q, retrieved_contexts |-> <<>>, scores |-> [k \in MetricKeys |-> None],
     error_type |-> "evaluation_error"]

\* mutant of SuccessResult: the relevancy score is not stored
SuccessResultDropsRelevancy(q, ctx, sc) ==
    [question_id |-> q, retrieved_contexts |-> ctx,
     scores |-> [sc EXCEPT !["context_relevancy"] = None], error_type |-> "none"]

\* Result rows written by run_evaluation
SuccessResult(q, ctx, sc) ==
    [question_id |-> q, retrieved_contexts |-> ctx, scores |-> sc,
     error_type |-> "none"]
RetrievalErrorResult(q) ==
    [question_id |-> q, retrieved_contexts |-> <<>>, scores |-> InitScores,
     error_type |-> "retrieval_error"]
EvaluationErrorResult(q, ctx) ==
    [question_id |-> q, retrieved_contexts |-> ctx, scores |-> InitScores,
     error_type |-> "evaluation_error"]

\* models/result.py EvaluationResult.status, lines 101-113
ResultStatus(r) ==
    IF r.error_type # "none" THEN "failed"
    ELSE IF \E k \in MetricKeys : r.scores[k] # None THEN "completed"
    ELSE "pending"

\* What the retrieval service returns for question q: its own passage
RetrievedContexts(q) == {<<q>>}

\* ------------------------------------------------------ StatisticsService
RECURSIVE SumSeq(_)
SumSeq(xs) == IF xs = <<>> THEN 0 ELSE Head(xs) + SumSeq(Tail(xs))

\* the 0.0 returned where there is nothing to average
ZeroAverage == [num |-> 0, den |-> 1]

\* lines 148-150: mean(scores) if scores else 0.0
mean_or_zero(xs) ==
    IF xs # <<>> THEN [num |-> SumSeq(xs), den |-> Len(xs)] ELSE ZeroAverage

\* lines 125-133: the Results of the run with at least one score
ScoredResults(rs) ==
    LET HasScore(r) == \E k \in MetricKeys : r.scores[k] # None
    IN SelectSeq(rs, HasScore)

\* mutant of MetricScores: only Results with all three scores are taken
MetricScoresCompleteOnly(rs, k) ==
    LET IsComplete(r) == \A m \in MetricKeys : r.scores[m] # None
        scored == SelectSeq(rs, IsComplete)
    IN [i \in 1..Len(scored) |-> scored[i].scores[k]]

\* lines 57-59 and 143-145: the non-null scores of one metric
MetricScores(rs, k) ==
    LET IsSet(r) == r.scores[k] # None
        scored == SelectSeq(rs, IsSet)
    IN [i \in 1..Len(scored) |-> scored[i].scores[k]]

\* statistics_service.py calculate_average_scores
calculate_average_scores(rs) ==
    IF ScoredResults(rs) = <<>>
    THEN [k \in MetricKeys |-> ZeroAverage]
    ELSE [k \in MetricKeys |-> mean_or_zero(MetricScores(ScoredResults(rs), k))]

\* a number kept exact as num / den
Whole(v) == [num |-> v, den |-> 1]

MinOf(xs) == CHOOSE v \in {xs[i] : i \in 1..Len(xs)} : \A i \in 1..Len(xs) : v <= xs[i]
MaxOf(xs) == CHOOSE v \in {xs[i] : i \in 1..Len(xs)} : \A i \in 1..Len(xs) : xs[i] <= v

\* sorted(xs)
RECURSIVE Sorted(_)
Sorted(xs) ==
    IF xs = <<>> THEN <<>>
    ELSE LET i == CHOOSE j \in 1..Len(xs) : xs[j] = MinOf(xs)
         IN <<xs[i]>> \o Sorted(RemoveAt(xs, i))

\* statistics.median: the middle value, or the mean of the two middle values
Median(xs) ==
    LET n == Len(xs)
        ys == Sorted(xs)
    IN IF n % 2 = 1 THEN Whole(ys[(n + 1) \div 2])
       ELSE [num |-> ys[n \div 2] + ys[(n \div 2) + 1], den |-> 2]

\* statistics.stdev squared, the sample variance: (n*sum(x^2) - sum(x)^2) / (n*(n-1))
Variance(xs) ==
    LET n == Len(xs)
        squares == [i \in 1..n |-> xs[i] * xs[i]]
    IN [num |-> n * SumSeq(squares) - SumSeq(xs) * SumSeq(xs), den |-> n * (n - 1)]

\* the {} returned for a metric without scores
EmptyStats == [empty |-> TRUE, mean |-> Whole(0), median |-> Whole(0),
               variance |-> Whole(0), min |-> 0, max |-> 0, count |-> 0]

\* _calculate_metric_stats, lines 83-102; std_dev is the root of variance
calculate_metric_stats(xs) ==
    IF xs = <<>> THEN EmptyStats
    ELSE IF Len(xs) = 1
    THEN [empty |-> FALSE, mean |-> Whole(xs[1]), median |-> Whole(xs[1]),
          variance |-> Whole(0), min |-> xs[1], max |-> xs[1], count |-> 1]
    ELSE [empty |-> FALSE, mean |-> [num |-> SumSeq(xs), den |-> Len(xs)],
          median |-> Median(xs), variance |-> Variance(xs),
          min |-> MinOf(xs), max |-> MaxOf(xs), count |-> Len(xs)]

NoStatistics == [done |-> FALSE, per |-> [k \in MetricKeys |-> EmptyStats]]

\* calculate_run_statistics, lines 37-69
calculate_run_statistics(rs) ==
    IF ScoredResults(rs) = <<>>
    THEN [done |-> TRUE, per |-> [k \in MetricKeys |-> EmptyStats]]
    ELSE [done |-> TRUE,
          per |-> [k \in MetricKeys |->
                      calculate_metric_stats(MetricScores(ScoredResults(rs), k))]]

\* --------------------------------------------------------- get_job_status
NoResponse == [code |-> "none", read |-> "none", status |-> "none",
               progress_percent |-> 0, current_step |-> "None"]

\* what the request meets: everything works, the cache read raises, or the
\* database query raises
ReadOutcomes == {"ok", "cache_fails", "db_fails"}

\* mutant of ReportedProgress: the cache is consulted only for its existence
ReportedProgressDurable(j, c, ro) ==
    [progress_percent |-> j.progress_percent, current_step |-> j.current_step]

\* jobs.py lines 194-209: the cached pair when hgetall returned a non-empty
\* hash, the Job's own pair when the key is absent or the read raised
ReportedProgress(j, c, ro) ==
    IF ro = "ok" /\ c.present
    THEN [progress_percent |-> c.progress_percent, current_step |-> c.current_step]
    ELSE [progress_percent |-> j.progress_percent, current_step |-> j.current_step]

\* jobs.py lines 174-237: the answer of one status request
JobStatusResponse(j, c, ro) ==
    IF ro = "db_fails"
    THEN [NoResponse EXCEPT !.code = "500", !.read = ro]
    ELSE IF j.status = "none"
    THEN [NoResponse EXCEPT !.code = "404", !.read = ro]
    ELSE [code |-> "200", read |-> ro, status |-> j.status,
          progress_percent |-> ReportedProgress(j, c, ro).progress_percent,
          current_step |-> ReportedProgress(j, c, ro).current_step]

\* -------------------------------------------------- RetrievalClient.query
NoQuery == [state |-> "idle", attempts |-> 0, history |-> <<>>, raised |-> "none"]

\* retrieval_client.py line 37: stop_after_attempt(3)
MaxAttempts == 3

\* what one attempt meets
AttemptOutcomes == {"ok", "timeout", "http_error", "connection_error",
                    "missing_contexts", "contexts_not_list", "unexpected"}

\* lines 101-119: the exception raised inside the try of one attempt
InnerException(o) ==
    CASE o = "ok" -> "none"
      [] o = "timeout" -> "Timeout"
      [] o = "http_error" -> "HTTPError"
      [] o = "connection_error" -> "RequestException"
      [] o \in {"missing_contexts", "contexts_not_list"} -> "RetrievalServiceError"
      [] OTHER -> "Exception"

\* lines 151-166: every except clause raises RetrievalServiceError; the last
\* clause, `except Exception`, also catches the RetrievalServiceError raised
\* by the validation at lines 115-119
SurfacedException(inner) ==
    IF inner = "none" THEN "none" ELSE "RetrievalServiceError"

\* mutant of RetryIf: only the requests exception types are retried
RetryIfRequestsOnly(exc) ==
    exc \in {"RequestException", "Timeout", "HTTPError"}

\* line 39: retry_if_exception_type((RequestException, RetrievalServiceError))
RetryIf(exc) ==
    exc \in {"RequestException", "Timeout", "HTTPError", "RetrievalServiceError"}

\* ------------------------------------------------ the questions of a dataset
MaxSessions == 2       \* question API requests that may overlap
MaxIds == 3            \* question rows of the dataset at one time
MaxIndex == 3          \* largest order_index written
MaxAdd == 2            \* questions in one bulk request
MaxFiles == 2          \* files of one generation job
MaxInitRows == 2       \* questions in the dataset at the start
MaxRequests == 3       \* question API requests answered

Sessions == 1..MaxSessions
DsIds == 1..MaxIds

\* no question API request answered yet
NoAnswer == [code |-> "none", served |-> 0]

\* no request in progress in a session
NoRequest == [phase |-> "idle", start_index |-> 0, n |-> 0, total |-> 0]

\* no generation job
\* QuestionGenerationJob row (models/generation_job.py lines 43-58)
NoGenJob == [status |-> "none", total_files |-> 0, processed_files |-> 0,
             failed_files |-> 0, total_questions_generated |-> 0]

\* no generation job.  job is the committed row and sjob the worker session's
\* copy with its uncommitted changes; failed is the set of files recorded as
\* failed in file_results; broken: a flush failed and the session refuses
\* further work; total is the session's uncommitted dataset.total_questions.
NoGen == [pc |-> "none", nfiles |-> 0, file_idx |-> 0, cur |-> 0,
          processed_files |-> 0, failed_files |-> 0, total_questions_generated |-> 0,
          failed |-> {}, broken |-> FALSE, total_set |-> FALSE, total |-> 0,
          job |-> NoGenJob, sjob |-> NoGenJob]

\* progress_base, line 119
ProgressBase(i, total) == 10 + ((i * 80) \div total)

Init ==
    /\ dataset \in {[i \in 1..n |-> i] : n \in 0..MaxQuestions}
    /\ edits = 0
    /\ job = NoJob
    /\ run = NoRun
    /\ results = <<>>
    /\ cache = NoCache
    /\ pc = "none"
    /\ questions = <<>>
    /\ idx = 0
    /\ contexts = UnboundContexts
    /\ session = NoSession
    /\ using_gemini \in BOOLEAN
    /\ ev_idx = 0
    /\ scores = InitScores
    /\ outcomes = <<>>
    /\ ev_ret = NoReturn
    /\ response = NoResponse
    /\ query = NoQuery
    /\ qrows = {}
    /\ ds_total = 0
    /\ api = [s \in Sessions |-> NoRequest]
    /\ ds_resp = NoAnswer
    /\ gen = NoGen
    /\ statistics = NoStatistics
    /\ evaluator = NoEvaluator
    /\ call = NoCall

\* routes/jobs.py create_job: Job and Run created together, then enqueued
create_job ==
    /\ pc = "none"
    /\ Len(dataset) > 0
    /\ job' = [status |-> "pending", progress_percent |-> 0,
               current_step |-> "Initializing evaluation", error_message |-> "None"]
    /\ run' = [status |-> "pending", total_questions |-> Len(dataset),
               successful_questions |-> 0, failed_questions |-> 0,
               current_question_index |-> 0, average_scores |-> NoAverages]
    /\ pc' = "queued"
    /\ UNCHANGED <<dataset, edits, results, cache, questions, idx, contexts, session>>
    /\ UNCHANGED evVars
    /\ UNCHANGED auxVars

\* question_service.py bulk_add_questions with one question: appended at max+1
bulk_add_questions ==
    /\ pc \in {"queued", "load_questions"}
    /\ edits < MaxEdits
    /\ Len(dataset) < MaxQuestions
    /\ dataset' = Append(dataset, FreshId)
    /\ edits' = edits + 1
    /\ UNCHANGED <<job, run, results, cache, pc, questions, idx, contexts, session>>
    /\ UNCHANGED evVars
    /\ UNCHANGED auxVars

\* question_service.py delete_question: removed, later questions move up
delete_question(i) ==
    /\ pc \in {"queued", "load_questions"}
    /\ edits < MaxEdits
    /\ i \in 1..Len(dataset)
    /\ dataset' = RemoveAt(dataset, i)
    /\ edits' = edits + 1
    /\ UNCHANGED <<job, run, results, cache, pc, questions, idx, contexts, session>>
    /\ UNCHANGED evVars
    /\ UNCHANGED auxVars

\* ---------------------------------------------------------- run_evaluation
\* An exception leaves the outer try: the session holds j and r uncommitted.
RaiseFatal(j, r, runLoaded) ==
    /\ pc' = "fatal"
    /\ session' = [job |-> j, run |-> r, run_loaded |-> runLoaded]
    /\ job' = job
    /\ run' = run

\* mutant of NextQuestion: the loop index does not advance
NextQuestionRepeats(i) ==
    pc' = "question" /\ idx' = i

\* mutant of NextQuestion: the loop is left after a question
NextQuestionAborts(i) ==
    pc' = "stats" /\ idx' = idx

\* the loop moves to question i + 1, or leaves for the statistics step
NextQuestion(i) ==
    IF i + 1 < Len(questions)
    THEN pc' = "question" /\ idx' = i + 1
    ELSE pc' = "stats" /\ idx' = idx

\* lines 89-91: the Job cannot be loaded; the handler finds no `job` and re-raises
StartJobLoadFails ==
    /\ pc = "queued"
    /\ pc' = "raised"
    /\ contexts' = UnboundContexts
    /\ UNCHANGED <<dataset, edits, job, run, results, cache, questions, idx, session>>
    /\ UNCHANGED evVars
    /\ UNCHANGED auxVars

\* lines 93-95: the Run cannot be loaded
StartRunLoadFails ==
    /\ pc = "queued"
    /\ RaiseFatal(job, run, FALSE)
    /\ contexts' = UnboundContexts
    /\ UNCHANGED <<dataset, edits, results, cache, questions, idx>>
    /\ UNCHANGED evVars
    /\ UNCHANGED auxVars

\* lines 97-101: status processing, publish 5, commit
StartProcessing(co) ==
    /\ pc = "queued"
    /\ contexts' = UnboundContexts
    /\ cache' = CacheWrite(cache, 5, "Loading questions", co)
    /\ LET j1 == [job EXCEPT !.status = "processing"] IN
       IF co = "ok"
       THEN /\ job' = update_progress(j1, 5, "Loading questions", co)
            /\ run' = run
            /\ pc' = "load_questions"
            /\ session' = session
       ELSE RaiseFatal(j1, run, TRUE)
    /\ UNCHANGED <<dataset, edits, results, questions, idx>>
    /\ UNCHANGED evVars
    /\ UNCHANGED auxVars

\* lines 104-108: the questions cannot be loaded
LoadQuestionsFails ==
    /\ pc = "load_questions"
    /\ RaiseFatal(job, run, TRUE)
    /\ UNCHANGED <<dataset, edits, results, cache, questions, idx, contexts>>
    /\ UNCHANGED evVars
    /\ UNCHANGED auxVars

\* lines 104-114: load the questions by order_index, publish 10, commit
LoadQuestions(co) ==
    /\ pc = "load_questions"
    /\ questions' = dataset
    /\ idx' = 0
    /\ cache' = CacheWrite(cache, 10, "Starting evaluation", co)
    /\ IF co = "ok"
       THEN /\ job' = update_progress(job, 10, "Starting evaluation", co)
            /\ run' = run
            /\ pc' = IF Len(dataset) > 0 THEN "question" ELSE "stats"
            /\ session' = session
       ELSE RaiseFatal(job, run, TRUE)
    /\ UNCHANGED <<dataset, edits, results, contexts>>
    /\ UNCHANGED evVars
    /\ UNCHANGED auxVars

\* lines 117-135: current question, publish progress_base, commit, contexts = [].
\* A failing publish is caught by the loop's `except Exception` (lines 208-227),
\* which builds a Result from the local `contexts`: unbound in the first
\* iteration (the NameError leaves the loop for the outer handler), the
\* previous question's value afterwards.
BeginQuestion(co) ==
    /\ pc = "question"
    /\ LET q == questions[idx + 1]
           base == ProgressBase(idx, Len(questions))
           r1 == [run EXCEPT !.current_question_index = idx]
       IN
       /\ cache' = CacheWrite(cache, base, "Testing question", co)
       /\ IF co = "ok"
          THEN /\ job' = update_progress(job, base, "Testing question", co)
               /\ run' = r1
               /\ contexts' = [bound |-> TRUE, val |-> <<>>]
               /\ results' = results
               /\ pc' = "retrieve"
               /\ idx' = idx
               /\ session' = session
          ELSE IF contexts.bound
          THEN /\ results' = Append(results, EvaluationErrorResult(q, contexts.val))
               /\ run' = [r1 EXCEPT !.failed_questions = @ + 1]
               /\ job' = job
               /\ contexts' = contexts
               /\ NextQuestion(idx)
               /\ session' = session
          ELSE /\ RaiseFatal(job, r1, TRUE)
               /\ results' = results
               /\ contexts' = contexts
               /\ idx' = idx
    /\ UNCHANGED <<dataset, edits, questions>>
    /\ UNCHANGED evVars
    /\ UNCHANGED auxVars

\* lines 142-148: the retrieval call returned
Retrieve(ctx) ==
    /\ pc = "retrieve"
    /\ ctx \in RetrievedContexts(questions[idx + 1])
    /\ contexts' = [bound |-> TRUE, val |-> ctx]
    /\ pc' = "evaluate"
    /\ UNCHANGED <<dataset, edits, job, run, results, cache, questions, idx, session>>
    /\ UNCHANGED evVars
    /\ UNCHANGED auxVars

\* lines 192-206: the retrieval call raised RetrievalServiceError
RetrieveFails ==
    /\ pc = "retrieve"
    /\ results' = Append(results, RetrievalErrorResult(questions[idx + 1]))
    /\ run' = [run EXCEPT !.failed_questions = @ + 1]
    /\ NextQuestion(idx)
    /\ UNCHANGED <<dataset, edits, job, cache, questions, contexts, session>>
    /\ UNCHANGED evVars
    /\ UNCHANGED auxVars

\* the locals of a finished evaluate_single call are gone
EvalLocalsDropped ==
    /\ ev_idx' = 0
    /\ scores' = InitScores
    /\ outcomes' = <<>>
    /\ ev_ret' = NoReturn
    /\ UNCHANGED using_gemini
    /\ UNCHANGED auxVars

\* evaluate_single, lines 276-284: scores start as None
EvalBegin ==
    /\ pc = "evaluate"
    /\ pc' = "metric"
    /\ ev_idx' = 0
    /\ scores' = InitScores
    /\ outcomes' = <<>>
    /\ ev_ret' = NoReturn
    /\ UNCHANGED <<dataset, edits, job, run, results, cache, questions, idx, contexts,
                   session>>
    /\ UNCHANGED using_gemini
    /\ UNCHANGED auxVars

\* evaluate_single, lines 287-351: one metric of the primary loop
EvalMetric(o) ==
    /\ pc = "metric"
    /\ ev_idx < 3
    /\ scores' = PrimaryStep(scores, Metrics[ev_idx + 1], o)
    /\ outcomes' = Append(outcomes, o)
    /\ ev_idx' = ev_idx + 1
    /\ pc' = IF ev_idx + 1 = 3 THEN "check" ELSE "metric"
    /\ UNCHANGED <<dataset, edits, job, run, results, cache, questions, idx, contexts,
                   session>>
    /\ UNCHANGED <<using_gemini, ev_ret>>
    /\ UNCHANGED auxVars

\* evaluate_single, lines 353-428: the NaN check, the fallback sequence if it
\* is entered, and the return or raise
EvalCheck(fb) ==
    /\ pc = "check"
    /\ FallbackEntered(scores, using_gemini) \/ fb = <<"unavailable">>
    /\ ev_ret' = EvalTail(scores, using_gemini, fb)
    /\ pc' = "evaluated"
    /\ UNCHANGED <<dataset, edits, job, run, results, cache, questions, idx, contexts,
                   session>>
    /\ UNCHANGED <<using_gemini, ev_idx, scores, outcomes>>
    /\ UNCHANGED auxVars

\* mutant of SaveResult: the loop moves on without the Result being committed
SaveResultSkipsCommit ==
    /\ pc = "evaluated"
    /\ ev_ret.kind = "return"
    /\ run' = [run EXCEPT !.successful_questions = @ + 1]
    /\ NextQuestion(idx)
    /\ UNCHANGED <<dataset, edits, job, results, cache, questions, contexts, session>>
    /\ EvalLocalsDropped

\* lines 166-188: evaluate_single returned; save the Result, count it, commit
SaveResult ==
    /\ pc = "evaluated"
    /\ ev_ret.kind = "return"
    /\ results' = Append(results,
                         SuccessResult(questions[idx + 1], contexts.val, ev_ret.scores))
    /\ run' = [run EXCEPT !.successful_questions = @ + 1]
    /\ NextQuestion(idx)
    /\ UNCHANGED <<dataset, edits, job, cache, questions, contexts, session>>
    /\ EvalLocalsDropped

\* lines 208-227: evaluate_single raised; save a failed Result with the contexts
SaveEvaluationError ==
    /\ pc = "evaluated"
    /\ ev_ret.kind = "raise"
    /\ results' = Append(results,
                         EvaluationErrorResult(questions[idx + 1], contexts.val))
    /\ run' = [run EXCEPT !.failed_questions = @ + 1]
    /\ NextQuestion(idx)
    /\ UNCHANGED <<dataset, edits, job, cache, questions, contexts, session>>
    /\ EvalLocalsDropped

\* lines 231-232: publish 90, commit
PublishStatistics(co) ==
    /\ pc = "stats"
    /\ cache' = CacheWrite(cache, 90, "Calculating statistics", co)
    /\ IF co = "ok"
       THEN /\ job' = update_progress(job, 90, "Calculating statistics", co)
            /\ run' = run
            /\ pc' = "finalize"
            /\ session' = session
       ELSE RaiseFatal(job, run, TRUE)
    /\ UNCHANGED <<dataset, edits, results, questions, idx, contexts>>
    /\ UNCHANGED evVars
    /\ UNCHANGED auxVars

\* lines 234-235: a statistics query fails
StatisticsFails ==
    /\ pc = "finalize"
    /\ RaiseFatal(job, run, TRUE)
    /\ UNCHANGED <<dataset, edits, results, cache, questions, idx, contexts>>
    /\ UNCHANGED evVars
    /\ UNCHANGED auxVars

\* lines 234-246: statistics, status completed, publish 100, commit
Finalize(co) ==
    /\ pc = "finalize"
    /\ cache' = CacheWrite(cache, 100, "Evaluation completed", co)
    /\ LET j1 == [job EXCEPT !.status = "completed"]
           r1 == [run EXCEPT !.average_scores = calculate_average_scores(results)]
       IN
       IF co = "ok"
       THEN /\ job' = update_progress(j1, 100, "Evaluation completed", co)
            /\ run' = r1
            /\ pc' = "done"
            /\ session' = session
       ELSE RaiseFatal(j1, r1, TRUE)
    /\ UNCHANGED <<dataset, edits, results, questions, idx, contexts>>
    /\ UNCHANGED evVars
    /\ UNCHANGED auxVars

\* lines 259-274: the outer handler marks the Job failed, republishes the
\* session's progress_percent when `run` is a local, commits, and re-raises.
\* When that update_progress raises, the commit is skipped (lines 271-272) and
\* the session is closed with its changes lost.
HandleFatal(hco) ==
    /\ pc = "fatal"
    /\ session.run_loaded \/ hco = "ok"
    /\ LET j2 == [session.job EXCEPT !.status = "failed", !.error_message = "Error"] IN
       IF session.run_loaded
       THEN /\ cache' = CacheWrite(cache, j2.progress_percent, "Error", hco)
            /\ IF hco = "ok"
               THEN /\ job' = update_progress(j2, j2.progress_percent, "Error", hco)
                    /\ run' = session.run
               ELSE /\ job' = job
                    /\ run' = run
       ELSE /\ cache' = cache
            /\ job' = j2
            /\ run' = run
    /\ pc' = "raised"
    /\ session' = NoSession
    /\ UNCHANGED <<dataset, edits, results, questions, idx, contexts>>
    /\ UNCHANGED evVars
    /\ UNCHANGED auxVars

\* the external execution layer runs run_evaluation again for a job whose
\* invocation raised (a requeue of the failed unit of work)
Requeue ==
    /\ pc = "raised"
    /\ Len(results) <= MaxRequeueResults
    /\ pc' = "queued"
    /\ UNCHANGED <<dataset, edits, job, run, results, cache, questions, idx, contexts,
                   session>>
    /\ UNCHANGED evVars
    /\ UNCHANGED auxVars

\* the steps of run_evaluation and of the evaluate_single calls it makes
WorkerNext ==
    \/ StartJobLoadFails
    \/ StartRunLoadFails
    \/ \E co \in CacheOutcomes : StartProcessing(co)
    \/ LoadQuestionsFails
    \/ \E co \in CacheOutcomes : LoadQuestions(co)
    \/ \E co \in CacheOutcomes : BeginQuestion(co)
    \/ \E ctx \in {<<q>> : q \in QuestionIds} : Retrieve(ctx)
    \/ RetrieveFails
    \/ EvalBegin
    \/ \E o \in BackendOutcomes : EvalMetric(o)
    \/ \E fb \in FallbackBehaviours : EvalCheck(fb)
    \/ SaveResult
    \/ SaveEvaluationError
    \/ \E co \in CacheOutcomes : PublishStatistics(co)
    \/ StatisticsFails
    \/ \E co \in CacheOutcomes : Finalize(co)
    \/ \E hco \in CacheOutcomes : HandleFatal(hco)

Next ==
    \/ create_job
    \/ bulk_add_questions
    \/ \E i \in 1..MaxQuestions : delete_question(i)
    \/ WorkerNext

\* one invocation of run_evaluation per submitted job, as create_job enqueues it
Spec == Init /\ [][Next]_vars

\* the worker keeps running: every blocking call returns or raises
FairSpec == Spec /\ WF_vars(WorkerNext)

\* with whole-run retry by the external execution layer
NextRetry == Next \/ Requeue

SpecRetry == Init /\ [][NextRetry]_vars

\* ------------------------------------------------- the status reader alone
\* Job rows and cache entries as run_evaluation leaves them
ProgressValues == {0, 5, 10, 50, 90, 100}
StepValues == {"Loading questions", "Testing question", "Error"}
StoredJobs ==
    {NoJob} \cup
    {[status |-> st, progress_percent |-> p, current_step |-> step,
      error_message |-> IF st = "failed" THEN "Error" ELSE "None"] :
        st \in {"pending", "processing", "completed", "failed"},
        p \in ProgressValues, step \in StepValues}
CacheEntries ==
    {NoCache} \cup
    {[present |-> TRUE, progress_percent |-> p, current_step |-> step, ttl |-> t] :
        p \in ProgressValues, step \in StepValues, t \in BOOLEAN}

InitReader ==
    /\ dataset = <<>>
    /\ edits = 0
    /\ job \in StoredJobs
    /\ run = IF job = NoJob THEN NoRun ELSE [NoRun EXCEPT !.status = "pending"]
    /\ results = <<>>
    /\ cache \in CacheEntries
    /\ pc = "none"
    /\ questions = <<>>
    /\ idx = 0
    /\ contexts = UnboundContexts
    /\ session = NoSession
    /\ using_gemini = TRUE
    /\ ev_idx = 0
    /\ scores = InitScores
    /\ outcomes = <<>>
    /\ ev_ret = NoReturn
    /\ response = NoResponse
    /\ query = NoQuery
    /\ qrows = {}
    /\ ds_total = 0
    /\ api = [s \in Sessions |-> NoRequest]
    /\ ds_resp = NoAnswer
    /\ gen = NoGen
    /\ statistics = NoStatistics
    /\ evaluator = NoEvaluator
    /\ call = NoCall

\* routes/jobs.py get_job_status: one status request
get_job_status(ro) ==
    /\ response' = JobStatusResponse(job, cache, ro)
    /\ UNCHANGED <<dataset, edits, job, run, results, cache, pc, questions, idx,
                   contexts, session, query>>
    /\ UNCHANGED evVars
    /\ UNCHANGED dsVars
    /\ UNCHANGED <<statistics, evaluator, call>>

\* Redis drops an entry whose one-hour expiry has passed
CacheExpires ==
    /\ cache.present
    /\ cache.ttl
    /\ cache' = NoCache
    /\ UNCHANGED <<dataset, edits, job, run, results, pc, questions, idx, contexts,
                   session>>
    /\ UNCHANGED evVars
    /\ UNCHANGED auxVars

NextReader ==
    \/ \E ro \in ReadOutcomes : get_job_status(ro)
    \/ CacheExpires

SpecReader == InitReader /\ [][NextReader]_vars

\* ------------------------------------------------------- a killed worker
\* the publish that the worker makes next from its position, if any
PublishPoints == {"queued", "load_questions", "question", "stats", "finalize"}

PendingPublish ==
    CASE pc = "queued" -> [p |-> 5, step |-> "Loading questions"]
      [] pc = "load_questions" -> [p |-> 10, step |-> "Starting evaluation"]
      [] pc = "question" -> [p |-> ProgressBase(idx, Len(questions)),
                             step |-> "Testing question"]
      [] pc = "stats" -> [p |-> 90, step |-> "Calculating statistics"]
      [] OTHER -> [p |-> 100, step |-> "Evaluation completed"]

\* The worker process is killed while run_evaluation runs; no handler runs and
\* the uncommitted changes of the session are lost.  With mid, the kill falls
\* inside update_progress between the HSET (line 47) and the EXPIRE (line 52).
KillWorker(mid) ==
    /\ pc \in PublishPoints \cup {"retrieve", "evaluate", "metric", "check", "evaluated"}
    /\ mid => pc \in PublishPoints
    /\ pc = "queued" => mid
    /\ cache' = IF mid
                THEN CacheWrite(cache, PendingPublish.p, PendingPublish.step, "expire_fails")
                ELSE cache
    /\ pc' = "killed"
    /\ UNCHANGED <<dataset, edits, job, run, results, questions, idx, contexts, session>>
    /\ UNCHANGED evVars
    /\ UNCHANGED auxVars

NextKill ==
    \/ Next
    \/ \E mid \in BOOLEAN : KillWorker(mid)
    \/ CacheExpires

\* Redis expires every entry whose expiry is set
FairSpecKill == Init /\ [][NextKill]_vars /\ WF_vars(CacheExpires)

\* ------------------------------------------- one RetrievalClient.query call
InitQuery ==
    /\ dataset = <<>>
    /\ edits = 0
    /\ job = NoJob
    /\ run = NoRun
    /\ results = <<>>
    /\ cache = NoCache
    /\ pc = "none"
    /\ questions = <<>>
    /\ idx = 0
    /\ contexts = UnboundContexts
    /\ session = NoSession
    /\ using_gemini = TRUE
    /\ ev_idx = 0
    /\ scores = InitScores
    /\ outcomes = <<>>
    /\ ev_ret = NoReturn
    /\ response = NoResponse
    /\ query = NoQuery
    /\ qrows = {}
    /\ ds_total = 0
    /\ api = [s \in Sessions |-> NoRequest]
    /\ ds_resp = NoAnswer
    /\ gen = NoGen
    /\ statistics = NoStatistics
    /\ evaluator = NoEvaluator
    /\ call = NoCall

\* the orchestrator calls retrieval_client.query (evaluation_worker.py line 142)
query_call ==
    /\ query.state = "idle"
    /\ query' = [query EXCEPT !.state = "running"]
    /\ UNCHANGED <<dataset, edits, job, run, results, cache, pc, questions, idx,
                   contexts, session, response>>
    /\ UNCHANGED evVars
    /\ UNCHANGED dsVars
    /\ UNCHANGED <<statistics, evaluator, call>>

\* One run of the body of query under the tenacity decorator (lines 36-41):
\* the body returns, or raises an exception that the decorator either retries
\* (retry predicate true and attempts left) or re-raises (reraise=True).
query_attempt(o) ==
    /\ query.state = "running"
    /\ LET exc == SurfacedException(InnerException(o))
           n == query.attempts + 1
       IN
       query' = [state |-> IF exc = "none" THEN "returned"
                           ELSE IF RetryIf(exc) /\ n < MaxAttempts THEN "running"
                           ELSE "raised",
                 attempts |-> n,
                 history |-> Append(query.history, o),
                 raised |-> IF exc # "none" /\ ~(RetryIf(exc) /\ n < MaxAttempts)
                            THEN exc ELSE "none"]
    /\ UNCHANGED <<dataset, edits, job, run, results, cache, pc, questions, idx,
                   contexts, session, response>>
    /\ UNCHANGED evVars
    /\ UNCHANGED dsVars
    /\ UNCHANGED <<statistics, evaluator, call>>

NextQuery ==
    \/ query_call
    \/ \E o \in AttemptOutcomes : query_attempt(o)

SpecQuery == InitQuery /\ [][NextQuery]_vars

\* ------------------------------------------------ QuestionService requests
\* Each request runs in its own database session (routes/questions.py).  A
\* session reads the committed rows; rows flushed by another session and not
\* yet committed are invisible to it but hold their unique index entry.
Committed(rows) == {r \in rows : r.committed}

IndicesOf(rows) == {r.order_index : r \in rows}

\* lines 35-40: max(order_index) + 1, or 0 for a dataset without questions
StartIndex(rows) ==
    IF rows = {} THEN 0
    ELSE (CHOOSE m \in IndicesOf(rows) : \A i \in IndicesOf(rows) : i <= m) + 1

\* A row's `by` is 0 for a row of a bulk request and i for a row generated
\* from file i of the generation job (question_metadata.source_file_id).
\* primary keys for n new rows
FreshIds(rows, n) ==
    CHOOSE S \in SUBSET (DsIds \ {r.id : r \in rows}) : Cardinality(S) = n

NewRows(rows, start, n, by, committed) ==
    LET ids == FreshIds(rows, n)
        rank(q) == Cardinality({x \in ids : x < q})
    IN {[id |-> q, order_index |-> start + rank(q), by |-> by, committed |-> committed] :
            q \in ids}

\* uq_dataset_question_order: an INSERT or UPDATE to an index held by a row
UniqueViolation(rows, indices) == \E r \in Committed(rows) : r.order_index \in indices
WaitsForLock(rows, indices) ==
    \E r \in rows : ~r.committed /\ r.order_index \in indices

\* the request is answered with status code c
Answer(c) == [code |-> c, served |-> ds_resp.served + 1]

\* a further request is accepted
Accepting ==
    ds_resp.served + Cardinality({s \in Sessions : api[s].phase # "idle"}) < MaxRequests

dsFrame ==
    /\ UNCHANGED <<dataset, edits, job, run, results, cache, pc, questions, idx,
                   contexts, session, response, query, statistics, evaluator, call>>
    /\ UNCHANGED evVars

\* bulk_add_questions, lines 35-64: the reads of the request; the new rows and
\* the new total_questions stay in the session (autoflush is off)
bulk_add_read(s, n) ==
    /\ Accepting
    /\ api[s].phase = "idle"
    /\ api' = [api EXCEPT ![s] = [phase |-> "read",
                                  start_index |-> StartIndex(Committed(qrows)),
                                  n |-> n,
                                  total |-> Cardinality(Committed(qrows)) + n]]
    /\ UNCHANGED <<qrows, ds_total, ds_resp, gen>>
    /\ dsFrame

\* bulk_add_questions, line 66: commit writes the rows and the total; an
\* IntegrityError or a failing database answers 500 and the session is closed
bulk_add_commit(s, dbo) ==
    LET a == api[s]
        indices == a.start_index .. (a.start_index + a.n - 1)
    IN
    /\ a.phase = "read"
    /\ dbo = "ok" => /\ Cardinality(qrows) + a.n <= MaxIds
                     /\ a.start_index + a.n - 1 <= MaxIndex
                     /\ ~WaitsForLock(qrows, indices)
    /\ IF dbo = "ok" /\ ~UniqueViolation(qrows, indices)
       THEN /\ qrows' = qrows \cup NewRows(qrows, a.start_index, a.n, 0, TRUE)
            /\ ds_total' = a.total
            /\ ds_resp' = Answer("201")
       ELSE /\ UNCHANGED <<qrows, ds_total>>
            /\ ds_resp' = Answer("500")
    /\ api' = [api EXCEPT ![s] = NoRequest]
    /\ UNCHANGED gen
    /\ dsFrame

\* delete_question, lines 144-162: the rows after the deleted one move up
RowsAfterDelete(rows, d) ==
    LET remaining == {r \in Committed(rows) : r.order_index > d.order_index}
        rank(r) == Cardinality({x \in remaining : x.order_index < r.order_index})
    IN ((rows \ {d}) \ remaining)
           \cup {[r EXCEPT !.order_index = d.order_index + rank(r)] : r \in remaining}

\* delete_question, lines 118-175, the whole request
delete_question_row(q) ==
    /\ Accepting
    /\ IF \E d \in Committed(qrows) : d.id = q
       THEN LET d == CHOOSE r \in Committed(qrows) : r.id = q
                after == RowsAfterDelete(qrows, d)
            IN
            /\ Cardinality(IndicesOf(after)) = Cardinality(after)
            /\ qrows' = after
            /\ ds_total' = IF ds_total > 0 THEN ds_total - 1 ELSE ds_total
            /\ ds_resp' = Answer("200")
       ELSE /\ UNCHANGED <<qrows, ds_total>>
            /\ ds_resp' = Answer("404")
    /\ UNCHANGED <<api, gen>>
    /\ dsFrame

\* the bodies QuestionReorderRequest accepts (schemas/question.py lines 80-103):
\* at least one item, order_index >= 0, no index twice
ReorderRequests ==
    {f \in UNION {[S -> 0..(MaxIds - 1)] : S \in (SUBSET DsIds) \ {{}}} :
        \A a, b \in DOMAIN f : a # b => f[a] # f[b]}

\* validate_question_orders, lines 246-264
validate_question_orders(rows, req) ==
    /\ {req[q] : q \in DOMAIN req} = 0..(Cardinality(DOMAIN req) - 1)
    /\ \A q \in DOMAIN req : \E r \in Committed(rows) : r.id = q

RECURSIVE SortedIds(_)
SortedIds(S) ==
    IF S = {} THEN <<>>
    ELSE LET m == CHOOSE x \in S : \A y \in S : x <= y
         IN <<m>> \o SortedIds(S \ {m})

\* the flush of reorder_questions (line 216): one UPDATE per changed row, in
\* primary key order, each checked against the unique index as it runs
RECURSIVE ReorderFlush(_, _, _)
ReorderFlush(rows, req, ids) ==
    IF ids = <<>> THEN [ok |-> TRUE, rows |-> rows]
    ELSE LET q == Head(ids)
             r == CHOOSE x \in rows : x.id = q
         IN IF r.order_index = req[q]
            THEN ReorderFlush(rows, req, Tail(ids))
            ELSE IF \E x \in rows : x.id # q /\ x.order_index = req[q]
            THEN [ok |-> FALSE, rows |-> rows]
            ELSE ReorderFlush((rows \ {r}) \cup {[r EXCEPT !.order_index = req[q]]},
                              req, Tail(ids))

\* routes/questions.py reorder_questions: validation, then the reorder
reorder_questions(req) ==
    /\ Accepting
    /\ IF ~validate_question_orders(qrows, req)
       THEN /\ qrows' = qrows
            /\ ds_resp' = Answer("400")
       ELSE LET res == ReorderFlush(qrows, req, SortedIds(DOMAIN req)) IN
            IF res.ok
            THEN /\ qrows' = res.rows
                 /\ ds_resp' = Answer("200")
            ELSE /\ qrows' = qrows
                 /\ ds_resp' = Answer("500")
    /\ UNCHANGED <<ds_total, api, gen>>
    /\ dsFrame

\* ------------------------------------------------ run_question_generation
\* Outcome of the Redis commands of the worker's update_progress (lines 44-50)
RedisOutcomes == {"ok", "fails"}

\* What extraction and generation do for one file: 0 stands for an exception
\* (lines 167-184), k >= 1 for k generated questions (generate_questions
\* returns at least one well-formed question or raises)
FileOutcomes == 0..MaxAdd

\* routes/generation_jobs.py trigger_generation, lines 104-133
trigger_generation(nf) ==
    /\ gen.pc = "none"
    /\ gen' = [NoGen EXCEPT !.pc = "queued", !.nfiles = nf,
                            !.job = [NoGenJob EXCEPT !.status = "pending",
                                                     !.total_files = nf],
                            !.sjob = [NoGenJob EXCEPT !.status = "pending",
                                                      !.total_files = nf]]
    /\ UNCHANGED <<qrows, ds_total, api, ds_resp>>
    /\ dsFrame

\* the worker session's commit: its flushed rows become visible
CommitRows(rows) == {[r EXCEPT !.committed = TRUE] : r \in rows}

\* the session is closed without a commit (line 308): its flushed rows are gone
RollbackRows(rows) == Committed(rows)

\* lines 89-153: status processing, publish 5, commit, load the files, read
\* the largest order_index
gen_start(ro) ==
    /\ gen.pc = "queued"
    /\ LET sj == [gen.sjob EXCEPT !.status = "processing"] IN
       IF ro = "ok"
       THEN gen' = [gen EXCEPT !.pc = "files", !.sjob = sj, !.job = sj,
                               !.cur = StartIndex(Committed(qrows))]
       ELSE gen' = [gen EXCEPT !.pc = "fatal", !.sjob = sj]
    /\ UNCHANGED <<qrows, ds_total, api, ds_resp>>
    /\ dsFrame

\* the loop leaves for the final update after the last file
AfterFile(g) ==
    [g EXCEPT !.file_idx = @ + 1,
              !.pc = IF g.file_idx + 1 = g.nfiles THEN "finish" ELSE "files"]

\* lines 223-235: the file is recorded as failed
FileFailed(g) ==
    AfterFile([g EXCEPT !.failed_files = @ + 1, !.failed = @ \cup {g.file_idx + 1}])

\* lines 156-235: one file.  Publish and commit (160-163), extract and
\* generate (165-184), add and flush the questions (186-205), count (207-221).
gen_file(ro, fo) ==
    /\ gen.pc = "files"
    /\ (ro = "fails" \/ gen.broken) => fo = 0
    /\ fo > 0 => /\ Cardinality(qrows) + fo <= MaxIds
                 /\ gen.cur + fo - 1 <= MaxIndex
    /\ IF ro = "fails" \/ gen.broken
       THEN \* update_progress raised, or commit raised PendingRollbackError
            /\ gen' = FileFailed(gen)
            /\ qrows' = qrows
       ELSE LET rows1 == CommitRows(qrows)
                g1 == [gen EXCEPT !.job = gen.sjob]
                indices == gen.cur .. (gen.cur + fo - 1)
            IN
            IF fo = 0
            THEN /\ gen' = FileFailed(g1)
                 /\ qrows' = rows1
            ELSE IF UniqueViolation(rows1, indices)
            THEN \* the flush raises IntegrityError and rolls the transaction back
                 /\ gen' = FileFailed([g1 EXCEPT !.broken = TRUE, !.cur = @ + fo])
                 /\ qrows' = rows1
            ELSE /\ gen' = AfterFile([g1 EXCEPT !.cur = @ + fo,
                                                !.processed_files = @ + 1,
                                                !.total_questions_generated = @ + fo])
                 /\ qrows' = rows1 \cup NewRows(rows1, gen.cur, fo, gen.file_idx + 1, FALSE)
    /\ UNCHANGED <<ds_total, api, ds_resp>>
    /\ dsFrame

\* lines 244-269: the final fields of the job
FinalJob(g) ==
    [g.sjob EXCEPT !.processed_files = g.processed_files,
                   !.failed_files = g.failed_files,
                   !.total_questions_generated = g.total_questions_generated,
                   !.status = IF g.failed_files = g.nfiles THEN "failed" ELSE "completed"]

\* lines 237-289: count the dataset's questions, set the job's final fields
\* and status, publish 100, commit.  The count query raises in a broken
\* session; a failing publish leaves everything uncommitted in the session.
gen_finish(ro) ==
    /\ gen.pc = "finish"
    /\ IF gen.broken
       THEN /\ gen' = [gen EXCEPT !.pc = "fatal"]
            /\ UNCHANGED <<qrows, ds_total>>
       ELSE LET g1 == [gen EXCEPT !.total_set = TRUE, !.total = Cardinality(qrows),
                                  !.sjob = FinalJob(gen)]
            IN
            IF ro = "ok"
            THEN /\ gen' = [g1 EXCEPT !.pc = "done", !.job = g1.sjob]
                 /\ qrows' = CommitRows(qrows)
                 /\ ds_total' = g1.total
            ELSE /\ gen' = [g1 EXCEPT !.pc = "fatal"]
                 /\ UNCHANGED <<qrows, ds_total>>
    /\ UNCHANGED <<api, ds_resp>>
    /\ dsFrame

\* lines 291-308: the handler marks the job failed, publishes and commits
\* what the session holds; when the publish or the commit raises, nothing is
\* committed and closing the session drops its flushed rows.  It re-raises.
gen_fatal(ro) ==
    /\ gen.pc = "fatal"
    /\ LET sj == [gen.sjob EXCEPT !.status = "failed"] IN
       IF ro = "ok" /\ ~gen.broken
       THEN /\ gen' = [gen EXCEPT !.pc = "raised", !.sjob = sj, !.job = sj]
            /\ qrows' = CommitRows(qrows)
            /\ ds_total' = IF gen.total_set THEN gen.total ELSE ds_total
       ELSE /\ gen' = [gen EXCEPT !.pc = "raised", !.sjob = sj]
            /\ qrows' = RollbackRows(qrows)
            /\ ds_total' = ds_total
    /\ UNCHANGED <<api, ds_resp>>
    /\ dsFrame

GenNext ==
    \/ \E nf \in 1..MaxFiles : trigger_generation(nf)
    \/ \E ro \in RedisOutcomes : gen_start(ro)
    \/ \E ro \in RedisOutcomes, fo \in FileOutcomes : gen_file(ro, fo)
    \/ \E ro \in RedisOutcomes : gen_finish(ro)
    \/ \E ro \in RedisOutcomes : gen_fatal(ro)

\* a dataset whose questions were added by bulk requests, one after another
InitQuestions ==
    /\ dataset = <<>>
    /\ edits = 0
    /\ job = NoJob
    /\ run = NoRun
    /\ results = <<>>
    /\ cache = NoCache
    /\ pc = "none"
    /\ questions = <<>>
    /\ idx = 0
    /\ contexts = UnboundContexts
    /\ session = NoSession
    /\ using_gemini = TRUE
    /\ ev_idx = 0
    /\ scores = InitScores
    /\ outcomes = <<>>
    /\ ev_ret = NoReturn
    /\ response = NoResponse
    /\ query = NoQuery
    /\ \E n \in 0..MaxInitRows :
          /\ qrows = {[id |-> i, order_index |-> i - 1, by |-> 0, committed |-> TRUE] :
                         i \in 1..n}
          /\ ds_total = n
    /\ api = [s \in Sessions |-> NoRequest]
    /\ ds_resp = NoAnswer
    /\ gen = NoGen
    /\ statistics = NoStatistics
    /\ evaluator = NoEvaluator
    /\ call = NoCall

NextQuestions ==
    \/ \E s \in Sessions, n \in 1..MaxAdd : bulk_add_read(s, n)
    \/ \E s \in Sessions, dbo \in {"ok", "fails"} : bulk_add_commit(s, dbo)
    \/ \E q \in DsIds : delete_question_row(q)
    \/ \E req \in ReorderRequests : reorder_questions(req)

SpecQuestions == InitQuestions /\ [][NextQuestions]_vars

\* one generation job on a dataset nobody else changes
SpecGeneration == InitQuestions /\ [][GenNext]_vars

\* A generation job and the question requests of one client on the same
\* dataset.  The requests arrive one at a time and each runs from its reads to
\* its commit with nothing in between; they fall between the steps of the job.
NoRequestRunning == api[1].phase = "idle"

NextDataset ==
    \/ NoRequestRunning /\ GenNext
    \/ NoRequestRunning /\ \E n \in 1..MaxAdd : bulk_add_read(1, n)
    \/ \E dbo \in {"ok", "fails"} : bulk_add_commit(1, dbo)
    \/ NoRequestRunning /\ \E q \in DsIds : delete_question_row(q)
    \/ NoRequestRunning /\ \E req \in ReorderRequests : reorder_questions(req)

SpecDataset == InitQuestions /\ [][NextDataset]_vars

\* ------------------------------------- evaluate_single on the singleton
MaxInvocations == 2    \* evaluate_single calls on the one evaluator

InitEvaluator ==
    /\ dataset = <<>>
    /\ edits = 0
    /\ job = NoJob
    /\ run = NoRun
    /\ results = <<>>
    /\ cache = NoCache
    /\ pc = "none"
    /\ questions = <<>>
    /\ idx = 0
    /\ contexts = UnboundContexts
    /\ session = NoSession
    /\ using_gemini = FALSE
    /\ ev_idx = 0
    /\ scores = InitScores
    /\ outcomes = <<>>
    /\ ev_ret = NoReturn
    /\ response = NoResponse
    /\ query = NoQuery
    /\ qrows = {}
    /\ ds_total = 0
    /\ api = [s \in Sessions |-> NoRequest]
    /\ ds_resp = NoAnswer
    /\ gen = NoGen
    /\ statistics = NoStatistics
    /\ evaluator \in {[NoEvaluator EXCEPT !.key = k] : k \in BOOLEAN}
    /\ call = NoCall

evFrame ==
    /\ UNCHANGED <<dataset, edits, job, run, results, cache, pc, questions, idx,
                   contexts, session, response, query, statistics>>
    /\ UNCHANGED dsVars

\* get_ragas_evaluator, lines 490-504, and __init__, lines 114-135: one
\* handle from _get_llm, stored in self.llm and in each of the three metrics
get_ragas_evaluator(co, oo, eo) ==
    /\ ~evaluator.built
    /\ LET k == GetLlm(evaluator.key, co, oo)
           h == Handle(k, 1)
       IN IF k = "raise" \/ eo = "fails"
          THEN UNCHANGED <<evaluator, using_gemini>>
          ELSE /\ evaluator' = [evaluator EXCEPT !.built = TRUE, !.primary = h, !.llm = h,
                                                 !.metrics = <<h, h, h>>]
               /\ using_gemini' = evaluator.key
    /\ UNCHANGED <<ev_idx, scores, outcomes, ev_ret, call>>
    /\ evFrame

\* evaluate_single, lines 263-284
evaluate_single_begin ==
    /\ evaluator.built
    /\ call.pc = "idle"
    /\ call.invocations < MaxInvocations
    /\ call' = [call EXCEPT !.pc = "metric", !.evals = <<>>]
    /\ ev_idx' = 0
    /\ scores' = InitScores
    /\ outcomes' = <<>>
    /\ ev_ret' = NoReturn
    /\ UNCHANGED <<evaluator, using_gemini>>
    /\ evFrame

\* the handle of the latest evaluation of this invocation
LastHandle == IF call.evals = <<>> THEN NoHandle ELSE call.evals[Len(call.evals)].handle

\* evaluate_single, lines 287-351: one iteration of the primary loop.
\* Lines 300-308 delete the llm attribute of the stored metric idx-1 and
\* self.llm; line 315 acquires, line 318 stores, lines 320-325 build the
\* local metric. da is what `del prev_metric.llm` does on a stored metric
\* whose llm attribute was deleted before: the library's class decides
\* whether hasattr is false (the deletion is skipped) or the deletion raises.
evaluate_single_metric(o, co, oo, da) ==
    /\ call.pc = "metric"
    /\ ev_idx < 3
    /\ LET m == Metrics[ev_idx + 1]
           stored == evaluator.metrics[ev_idx + 1]
           prev == IF ev_idx > 0 THEN evaluator.metrics[ev_idx] ELSE NoHandle
           delRaises == ev_idx > 0 /\ prev = NoHandle /\ da = "raises"
           cleaned == IF ev_idx > 0 /\ prev # NoHandle
                      THEN [evaluator.metrics EXCEPT ![ev_idx] = NoHandle]
                      ELSE evaluator.metrics
           k == GetLlm(evaluator.key, co, oo)
           h == Handle(k, 1 + 3 * call.invocations + ev_idx)
           runs == ev_idx = 0 \/ (~delRaises /\ k # "raise")
           handle == IF ev_idx = 0 THEN stored ELSE h
           out == IF runs THEN o ELSE "raise"
           after == IF ev_idx = 0 \/ delRaises THEN evaluator
                    ELSE [evaluator EXCEPT !.metrics = cleaned,
                                           !.llm = IF k = "raise" THEN NoHandle ELSE h]
       IN /\ evaluator' = after
          /\ call' = [call EXCEPT
                         !.pc = IF ev_idx + 1 = 3 THEN "check" ELSE "metric",
                         !.evals = IF runs
                                   THEN Append(@, Evaluation("primary", ev_idx + 1, handle,
                                                   ev_idx > 0,
                                                   \/ LastHandle = NoHandle
                                                   \/ LastHandle \notin Referenced(after)))
                                   ELSE @]
          /\ scores' = PrimaryStep(scores, m, out)
          /\ outcomes' = Append(outcomes, out)
    /\ ev_idx' = ev_idx + 1
    /\ UNCHANGED <<using_gemini, ev_ret>>
    /\ evFrame

\* the one handle _get_ollama_fallback makes, lines 194-218
OllamaFallback == Handle("ollama", 1 + 3 * MaxInvocations)

\* evaluate_single, lines 353-428: the NaN check, the fallback sequence if it
\* is entered (lines 374-415, one handle from _get_ollama_fallback for the
\* three fallback metrics), and the return or raise
evaluate_single_check(fb) ==
    /\ call.pc = "check"
    /\ LET entered == FallbackEntered(scores, using_gemini)
           cached == evaluator.ollama_llm # NoHandle
           ran == entered /\ fb # <<"unavailable">>
       IN /\ entered \/ fb = <<"unavailable">>
          /\ (entered /\ cached) => fb # <<"unavailable">>
          /\ evaluator' = IF ran THEN [evaluator EXCEPT !.ollama_llm = OllamaFallback]
                          ELSE evaluator
          /\ call' = [call EXCEPT
                         !.pc = "idle",
                         !.invocations = @ + 1,
                         !.evals = IF ran
                                   THEN @ \o [i \in 1..3 |->
                                                 Evaluation("fallback", i, OllamaFallback,
                                                            i = 1 /\ ~cached, FALSE)]
                                   ELSE @]
    /\ ev_ret' = EvalTail(scores, using_gemini, fb)
    /\ UNCHANGED <<using_gemini, ev_idx, scores, outcomes>>
    /\ evFrame

NextEvaluator ==
    \/ \E co, oo, eo \in AcquireOutcomes : get_ragas_evaluator(co, oo, eo)
    \/ evaluate_single_begin
    \/ \E o \in BackendOutcomes, co, oo \in AcquireOutcomes, da \in {"skips", "raises"} :
           evaluate_single_metric(o, co, oo, da)
    \/ \E fb \in FallbackBehaviours : evaluate_single_check(fb)

SpecEvaluator == InitEvaluator /\ [][NextEvaluator]_vars

\* ------------------------------------------- the statistics aggregator alone
MaxStatResults == 2    \* Results of the run handed to the aggregator

\* Result rows with any combination of null and non-null scores
StatResults ==
    {[question_id |-> 1, retrieved_contexts |-> <<>>, scores |-> sc,
      error_type |-> "none"] : sc \in [MetricKeys -> {None} \cup ScoreValues]}

InitStatistics ==
    /\ dataset = <<>>
    /\ edits = 0
    /\ job = NoJob
    /\ run = NoRun
    /\ results \in UNION {[1..n -> StatResults] : n \in 0..MaxStatResults}
    /\ cache = NoCache
    /\ pc = "none"
    /\ questions = <<>>
    /\ idx = 0
    /\ contexts = UnboundContexts
    /\ session = NoSession
    /\ using_gemini = TRUE
    /\ ev_idx = 0
    /\ scores = InitScores
    /\ outcomes = <<>>
    /\ ev_ret = NoReturn
    /\ response = NoResponse
    /\ query = NoQuery
    /\ qrows = {}
    /\ ds_total = 0
    /\ api = [s \in Sessions |-> NoRequest]
    /\ ds_resp = NoAnswer
    /\ gen = NoGen
    /\ statistics = NoStatistics
    /\ evaluator = NoEvaluator
    /\ call = NoCall

\* one call of StatisticsService.calculate_run_statistics for the run
run_statistics ==
    /\ ~statistics.done
    /\ statistics' = calculate_run_statistics(results)
    /\ UNCHANGED <<dataset, edits, job, run, results, cache, pc, questions, idx,
                   contexts, session, response, query, evaluator, call>>
    /\ UNCHANGED evVars
    /\ UNCHANGED dsVars

SpecStatistics == InitStatistics /\ [][run_statistics]_vars

\* -------------------------------------------------------------- properties
LastResult(rs) == rs[Len(rs)]

ResultsFor(q) == {i \in 1..Len(results) : results[i].question_id = q}

\* C1: whenever the Job is terminal (completed or failed), the Run's
\* successful_questions + failed_questions equals its total_questions, the
\* count recorded by create_job.
C1_TerminalCountsEqualTotal ==
    job.status \in {"completed", "failed"}
        => run.successful_questions + run.failed_questions = run.total_questions

\* a retrieval failure or a scoring failure of the current question is handled
QuestionFailureStep ==
    \/ pc = "retrieve" /\ pc' \notin {"retrieve", "evaluate"}
    \/ pc = "evaluated" /\ ev_ret.kind = "raise" /\ pc' # "evaluated"

\* the loop stands at a later question after a question was recorded as failed
AfterFailedQuestion ==
    /\ pc = "question"
    /\ idx > 0
    /\ Len(results) >= idx
    /\ results[idx].error_type # "none"

C3_StatusStateMachine ==
    [][\/ job'.status = job.status
       \/ <<job.status, job'.status>> \in
            {<<"none", "pending">>, <<"pending", "processing">>,
             <<"processing", "completed">>, <<"processing", "failed">>}]_vars

\* C4: the Run's status mirrors the Job's: it has left pending once the Job is
\* processing, and equals the Job's status once the Job is completed or failed.
C4_RunMirrorsJob ==
    /\ job.status = "processing" => run.status # "pending"
    /\ job.status \in {"completed", "failed"} => run.status = job.status

\* C5: the progress_percent values published by update_progress, to the cache
\* entry and to the Job record, never decrease and lie in [0,100].
C5_ProgressMonotone ==
    [][/\ job'.progress_percent >= job.progress_percent
       /\ job'.progress_percent \in 0..100
       /\ cache'.progress_percent \in 0..100
       /\ (cache.present /\ cache'.present)
            => cache'.progress_percent >= cache.progress_percent]_vars

\* C6: in every reachable state no two Results of the run have the same
\* question, and once the Job is completed every question the run loaded has
\* exactly one Result.
C6_OneResultPerQuestion ==
    /\ \A i, j \in 1..Len(results) :
          i # j => results[i].question_id # results[j].question_id
    /\ job.status = "completed" =>
          \A k \in 1..Len(questions) : Cardinality(ResultsFor(questions[k])) = 1

\* C7: a map returned by evaluate_single holds a finite score for each of the
\* three metrics: no None, no NaN, no missing key.
C7_ReturnedScoresFinite ==
    ev_ret.kind = "return" => \A k \in MetricKeys : ev_ret.scores[k] \in ScoreValues

\* C7 witness: evaluate_single returned although the backend raised for one
\* metric and gave NaN for another.
C7_Witness ==
    /\ pc = "evaluated"
    /\ ev_ret.kind = "return"
    /\ \E i, j \in 1..3 : outcomes[i] = "nan" /\ outcomes[j] = "raise"

\* C8: on the primary (cloud) backend, when a metric's evaluation raised, gave
\* NaN or was malformed, the three-metric sequence is rerun on the fallback.
C8_FallbackOnUnsetMetric ==
    (/\ pc = "evaluated"
     /\ using_gemini
     /\ \E i \in 1..3 : outcomes[i] \in {"raise", "nan", "malformed"})
        => ev_ret.fallback

\* C9: evaluate_single returns 0.0 for a metric only when the backend computed
\* 0.0 for that metric.
C9_ZeroOnlyWhenComputed ==
    (pc = "evaluated" /\ ev_ret.kind = "return" /\ ~ev_ret.fallback)
        => \A i \in 1..3 : ev_ret.scores[Metrics[i]] = 0 => outcomes[i] = "v0"

\* C10: the Result of a question whose retrieval failed has no contexts and
\* error_type retrieval_error; the Result of a question whose retrieval
\* succeeded and whose scoring failed has the contexts retrieved for that
\* question and error_type evaluation_error.
C10_ContextsOnFailure ==
    [][/\ (pc = "retrieve" /\ Len(results') = Len(results) + 1)
            => /\ LastResult(results').retrieved_contexts = <<>>
               /\ LastResult(results').error_type = "retrieval_error"
       /\ (pc = "evaluated" /\ ev_ret.kind = "raise" /\ Len(results') = Len(results) + 1)
            => /\ LastResult(results').retrieved_contexts
                    \in RetrievedContexts(questions[idx + 1])
               /\ LastResult(results').error_type = "evaluation_error"]_vars

\* C10 witness: one Result of each kind has been saved.
C10_Witness ==
    \E i, j \in 1..Len(results) :
        /\ results[i].error_type = "retrieval_error"
        /\ results[i].retrieved_contexts = <<>>
        /\ results[j].error_type = "evaluation_error"
        /\ results[j].retrieved_contexts = <<results[j].question_id>>

\* C11: when run_evaluation has raised for a failure outside the per-question
\* try (loading the Job, the Run or the questions, or a step after the loop),
\* the Job is failed with error_message set; it is not left pending or
\* processing.
C11_FatalMarksJobFailed ==
    pc = "raised" => (job.status = "failed" /\ job.error_message # "None")

\* every question of the run was recorded as a scoring failure
AllFailedScoring ==
    /\ Len(results) > 0
    /\ \A i \in 1..Len(results) : results[i].error_type = "evaluation_error"

\* C12: when run_evaluation has returned and every question failed scoring,
\* the Job is completed, failed_questions equals the Run's total_questions,
\* successful_questions is 0 and average_scores is 0.0 for the three metrics.
C12_AllFailedStillCompleted ==
    (pc = "done" /\ AllFailedScoring)
        => /\ job.status = "completed"
           /\ run.failed_questions = run.total_questions
           /\ run.successful_questions = 0
           /\ \A k \in MetricKeys : run.average_scores[k] = ZeroAverage

\* Results saved because the question's retrieval raised, or because its
\* scoring raised after its own contexts had been retrieved
RetrievalOrScoringFailed(r) ==
    \/ r.error_type = "retrieval_error"
    \/ r.error_type = "evaluation_error"
       /\ r.retrieved_contexts \in RetrievedContexts(r.question_id)

\* C13: when the run has completed, successful_questions is the number of
\* questions whose retrieval and scoring both succeeded, failed_questions is
\* the number of questions whose retrieval or scoring failed, and the two
\* counters together count every loaded question once.
C13_CountersMatchOutcomes ==
    job.status = "completed" =>
        /\ run.successful_questions =
              Cardinality({i \in 1..Len(results) : results[i].error_type = "none"})
        /\ run.failed_questions =
              Cardinality({i \in 1..Len(results) : RetrievalOrScoringFailed(results[i])})
        /\ run.successful_questions + run.failed_questions = Len(questions)

\* retrieval or scoring of the current question is under way
InQuestion == pc \in {"retrieve", "evaluate", "metric", "check", "evaluated"}

\* C14: within one run the Results are created in the order_index order of
\* the loaded questions, and while question k+1 is retrieved or scored the
\* Results of questions 1..k, and no other, are persisted.
C14_ResultsInOrder ==
    /\ Len(results) <= Len(questions)
    /\ \A i \in 1..Len(results) : results[i].question_id = questions[i]
    /\ InQuestion => Len(results) = idx

\* C14 witness: retrieval of the second question starts with the first
\* question's Result persisted.
C14_Witness ==
    /\ pc = "retrieve"
    /\ idx = 1
    /\ Len(results) = 1
    /\ results[1].question_id = questions[1]

\* C15: a failing cache write inside update_progress does not change the
\* run's outcome: from the start of a question's iteration the only step is to
\* begin its retrieval; no Result is recorded, no counter changes and the Job
\* is not failed.
C15_CacheFailureHarmless ==
    [][pc = "question" =>
          /\ pc' = "retrieve"
          /\ results' = results
          /\ run'.failed_questions = run.failed_questions
          /\ run'.successful_questions = run.successful_questions]_vars

\* C16: a status request for an existing Job answers with the cached
\* progress_percent and current_step when the cache entry exists and the read
\* works, and with the Job record's values when the entry is absent or the
\* cache read raises; neither of the latter makes the request fail.
C16_ReaderPrefersCache ==
    [][response' # response =>
          LET r == response' IN
          IF r.read = "db_fails" THEN r.code = "500"
          ELSE IF job.status = "none" THEN r.code = "404"
          ELSE /\ r.code = "200"
               /\ r.status = job.status
               /\ IF cache.present /\ r.read = "ok"
                  THEN /\ r.progress_percent = cache.progress_percent
                       /\ r.current_step = cache.current_step
                  ELSE /\ r.progress_percent = job.progress_percent
                       /\ r.current_step = job.current_step]_vars

\* C16 witness: an answer that carries the cached values where they differ
\* from the Job record's.
C16_Witness ==
    /\ response.code = "200"
    /\ response.read = "ok"
    /\ cache.present
    /\ response.progress_percent = cache.progress_percent
    /\ response.progress_percent # job.progress_percent
    /\ response.current_step # job.current_step

\* C17: every cache entry written by a publish carries the one-hour expiry;
\* after the worker was killed during a run the Run is in processing as the
\* Job is, and the cache entry eventually disappears.
C17_KilledWorkerCacheExpires ==
    /\ [](cache.present => cache.ttl)
    /\ []((pc = "killed" /\ job.status = "processing") => run.status = "processing")
    /\ ((pc = "killed") ~> (~cache.present))

\* C18: RetrievalClient.query makes at most 3 attempts; it returns only the
\* result of a successful attempt that followed failed ones only, it raises
\* only RetrievalServiceError and only once all 3 attempts have failed, and
\* while attempts remain nothing has been raised to the caller.
C18_QueryBoundedAttempts ==
    /\ query.attempts <= MaxAttempts
    /\ query.attempts = Len(query.history)
    /\ \A i \in 1..(Len(query.history) - 1) : query.history[i] # "ok"
    /\ query.state = "running" => query.raised = "none" /\ query.attempts < MaxAttempts
    /\ query.state = "returned" =>
           /\ query.raised = "none"
           /\ query.attempts >= 1
           /\ query.history[Len(query.history)] = "ok"
    /\ query.state = "raised" =>
           /\ query.raised = "RetrievalServiceError"
           /\ query.attempts = MaxAttempts
           /\ \A i \in 1..MaxAttempts : query.history[i] # "ok"

\* the third attempt failed and the failure reached the caller
C18_Witness ==
    /\ query.state = "raised"
    /\ query.attempts = MaxAttempts
    /\ query.history[1] = "timeout"
    /\ query.history[MaxAttempts] = "connection_error"

TransientOutcomes == {"timeout", "connection_error", "http_error"}

\* C19: query repeats an attempt only after a transient failure of the
\* request; a response without the contexts field, or whose contexts field
\* is not a list, is raised to the caller after a single attempt.
C19_RetryOnlyTransient ==
    /\ \A i \in 1..(Len(query.history) - 1) : query.history[i] \in TransientOutcomes
    /\ (/\ query.history # <<>>
        /\ query.history[1] \in {"missing_contexts", "contexts_not_list"})
       => (query.state = "raised" /\ query.attempts = 1)

\* C20: within one run the questions are handled one at a time: the retrieval
\* of a question begins only at the head of the loop, when every earlier
\* question has its committed Result and no scoring call is in progress, and a
\* Result is committed only for the question the loop is at.
C20_OneQuestionAtATime ==
    [][/\ (pc' = "retrieve" /\ pc # "retrieve") =>
             /\ pc = "question"
             /\ Len(results') = idx'
             /\ ev_idx' = 0
             /\ outcomes' = <<>>
             /\ ev_ret' = NoReturn
       /\ (results' # results) =>
             /\ Len(results') = idx + 1
             /\ \A k \in 1..Len(results) : results'[k] = results[k]
             /\ results'[idx + 1].question_id = questions[idx + 1]]_vars

\* C20 witness: the second question is being scored, two metrics done, with
\* the first question's Result committed.
C20_Witness ==
    /\ pc = "metric"
    /\ idx = 1
    /\ ev_idx = 2
    /\ Len(results) = 1
    /\ results[1].error_type = "none"

\* C29: whenever no bulk_add_questions or delete_question request is in
\* progress, the dataset's stored total_questions equals the number of
\* questions the dataset holds.
C29_TotalMatchesQuestionCount ==
    (\A s \in Sessions : api[s].phase = "idle")
        => ds_total = Cardinality(Committed(qrows))

\* C21: the order_index values of the dataset's questions are exactly
\* 0..n-1, without gap or duplicate, after every bulk_add_questions,
\* delete_question, validated reorder_questions and question generation step.
C21_OrderIndexContiguous ==
    IndicesOf(Committed(qrows)) = 0..(Cardinality(Committed(qrows)) - 1)

\* run_question_generation has returned or raised
GenFinished == gen.pc \in {"done", "raised"}

\* C30: when run_question_generation finishes, the job's
\* total_questions_generated is the number of questions the job persisted,
\* processed_files + failed_files is the number of files handled, no persisted
\* question comes from a file recorded as failed, and, all files having been
\* handled, the job's status is failed exactly when every file failed.
C30_GenerationAccounting ==
    GenFinished =>
        /\ gen.job.total_questions_generated
               = Cardinality({r \in Committed(qrows) : r.by > 0})
        /\ gen.job.processed_files + gen.job.failed_files = gen.file_idx
        /\ \A r \in Committed(qrows) : r.by \notin gen.failed
        /\ gen.file_idx = gen.nfiles =>
               ((gen.job.status = "failed") <=> (gen.failed_files = gen.nfiles))

\* C22: at all times the Run's successful_questions + failed_questions is at
\* most its total_questions.
C22_CountsWithinTotal ==
    run.successful_questions + run.failed_questions <= run.total_questions

\* the number of Results of the run with a non-null score for metric k
Observations(k) == {i \in 1..Len(results) : results[i].scores[k] # None}

\* C23: for every metric the aggregator returns an empty entry when the
\* metric has no non-null observation; for exactly one observation v it
\* returns mean = median = min = max = v, std_dev = 0 and count = 1; and the
\* count of a metric is the number of Results with a score for that metric,
\* whatever nulls these Results have in the other metrics.
C23_MetricStats ==
    statistics.done =>
        \A k \in MetricKeys :
            LET st == statistics.per[k]
                obs == Observations(k)
            IN /\ obs = {} => st.empty
               /\ obs # {} => (~st.empty /\ st.count = Cardinality(obs))
               /\ Cardinality(obs) = 1 =>
                      LET v == results[CHOOSE i \in obs : TRUE].scores[k] IN
                      /\ st.mean.num = v * st.mean.den
                      /\ st.median.num = v * st.median.den
                      /\ st.min = v
                      /\ st.max = v
                      /\ st.variance.num = 0
                      /\ st.count = 1

\* C23 witness: a metric with exactly one observation, in a Result whose
\* other metrics are null, beside a Result scored only on another metric.
C23_Witness ==
    /\ statistics.done
    /\ Len(results) = 2
    /\ results[1].scores["context_precision"] = 1
    /\ results[1].scores["context_recall"] = None
    /\ results[1].scores["context_relevancy"] = None
    /\ results[2].scores["context_precision"] = None
    /\ results[2].scores["context_recall"] = 0
    /\ statistics.per["context_precision"].count = 1
    /\ statistics.per["context_relevancy"].empty

\* C24: in every evaluate_single invocation the single-metric evaluations
\* happen one after the other in the order precision, recall, relevancy,
\* the primary sequence before the fallback sequence, and every evaluation
\* of a metric other than the first of its sequence, on the primary and on
\* the fallback sequence, runs on a handle acquired after the previous
\* metric's handle was released.
C24_FreshHandlePerMetric ==
    \A i \in 1..Len(call.evals) :
        /\ call.evals[i].pos > 1 => (call.evals[i].fresh /\ call.evals[i].released)
        /\ \A j \in 1..(i - 1) :
               \/ call.evals[j].seq = "primary" /\ call.evals[i].seq = "fallback"
               \/ /\ call.evals[j].seq = call.evals[i].seq
                  /\ call.evals[j].pos < call.evals[i].pos

\* C25: every evaluate_single invocation runs the first metric of its
\* sequence on the primary backend, the one the evaluator was built with,
\* whether or not an earlier invocation fell back to the local backend.
C25_StartsOnPrimary ==
    \A i \in 1..Len(call.evals) :
        (call.evals[i].seq = "primary" /\ call.evals[i].pos = 1)
            => call.evals[i].handle.kind = evaluator.primary.kind

\* C26: in every invocation on the singleton evaluator, every single-metric
\* evaluation runs with a metric object that holds a backend handle.
C26_MetricHoldsHandle ==
    \A i \in 1..Len(call.evals) : call.evals[i].handle # NoHandle

\* C27: using_gemini is true only while the evaluator's current handle,
\* the one _get_llm acquired, is the cloud model.
C27_UsingGeminiAgrees ==
    using_gemini => evaluator.llm.kind = "gemini"

\* C28: every Result persisted by run_evaluation either has all three
\* scores non-null and no error_type (derived status completed) or has all
\* three scores null and an error_type (derived status failed); none is
\* pending and none has both scores and an error_type.
C28_ResultShapes ==
    \A i \in 1..Len(results) :
        LET r == results[i] IN
        \/ /\ \A k \in MetricKeys : r.scores[k] # None
           /\ r.error_type = "none"
           /\ ResultStatus(r) = "completed"
        \/ /\ \A k \in MetricKeys : r.scores[k] = None
           /\ r.error_type # "none"
           /\ ResultStatus(r) = "failed"

\* C28 witness: a run that persisted a scored Result and the Result of a
\* failed evaluation.
C28_Witness ==
    /\ \E i \in 1..Len(results) : ResultStatus(results[i]) = "completed"
    /\ \E i \in 1..Len(results) : results[i].error_type = "evaluation_error"

====
